---- MODULE Spec2Model ----
(***************************************************************************)
(* A model of the blog backend: the relational store (Post, Comment,        *)
(* FavouritePost, Media), the "posts" search index, the request handlers of *)
(* app/routers/blog.py and the keyword task of app/keywords.py.             *)
(*                                                                          *)
(* A handler is a sequence of steps, one per suspension point that a claim  *)
(* is about: the store transaction of a post handler (select, assignments,  *)
(* commit, refresh) is one step and its search-index call with the response *)
(* is the next; add_favorite suspends between its queries and its commit.   *)
(* Handlers in flight are a bag of continuations.  The variable `last`      *)
(* records the step just taken (the operation, its arguments, its outcome). *)
(*                                                                          *)
(* A nullable column or optional request field is <<>> (NULL / None) or     *)
(* <<v>>.  A WHERE clause is evaluated in SQL's three-valued logic.         *)
(***************************************************************************)
EXTENDS Integers, Sequences, FiniteSets, Bags, TLC

VARIABLES posts, comments, favourites, media, index,
          post_seq, comment_seq, favourite_seq, media_seq,
          now, inflight, tasks, startup, last

store == <<posts, comments, favourites, media>>
seqs == <<post_seq, comment_seq, favourite_seq, media_seq>>
vars == <<posts, comments, favourites, media, index,
          post_seq, comment_seq, favourite_seq, media_seq,
          now, inflight, tasks, startup, last>>

(* ------------------------------ bounds ------------------------------ *)
MaxPosts == 1
MaxComments == 1
MaxMedia == 1
MaxFavourites == 2
MaxClock == 1
MaxWriters == 1
MaxAdders == 2
MaxTasks == 1

NULL == <<>>
Users == {"u1", "u2"}

(* ---------------------- SQL three-valued logic ---------------------- *)
SqlEq(col, v) == IF col = NULL THEN "U" ELSE IF col[1] = v THEN "T" ELSE "F"
SqlOr(a, b) == IF a = "T" \/ b = "T" THEN "T"
               ELSE IF a = "F" /\ b = "F" THEN "F" ELSE "U"
SqlAnd(a, b) == IF a = "F" \/ b = "F" THEN "F"
                ELSE IF a = "T" /\ b = "T" THEN "T" ELSE "U"
Selected(p) == p = "T"

Without(f, k) == [x \in DOMAIN f \ {k} |-> f[x]]

(* ------------------------------ inputs ------------------------------ *)
Titles == {"t1", "t2"}
Contents == {"c1", "c2"}
ShortDescriptions == {NULL, <<"s1">>}
KeywordStrings == {NULL, <<"k1">>}
OptBool == {NULL, <<TRUE>>, <<FALSE>>}
Opt(S) == {NULL} \cup {<<x>> : x \in S}

\* PostBase / PostCreate: title and content required, the rest Optional = None.
PostCreate == [title : Titles, content : Contents,
               short_description : ShortDescriptions,
               published : OptBool, keywords : KeywordStrings]
\* PostPatch: every field Optional = None.
PostPatch == [title : Opt(Titles), content : Opt(Contents),
              short_description : ShortDescriptions,
              keywords : KeywordStrings, published : OptBool]

(* ------------------------------ store ------------------------------- *)
\* Post columns; id is the key of `posts`.  published has a column default of
\* False, created_at a server default of now(), updated_at is set by onupdate.
Post(author_id, title, content, short_description, keywords) ==
    [author_id |-> author_id, title |-> title,
     short_description |-> short_description, content |-> content,
     published |-> <<FALSE>>, created_at |-> <<now>>, updated_at |-> NULL,
     published_at |-> NULL, keywords |-> keywords]

Comment(content, post_id, author_id) ==
    [author_id |-> author_id, post_id |-> <<post_id>>, content |-> content]

FavouritePost(user_id, post_id) ==
    [post_id |-> <<post_id>>, user_id |-> user_id]

Media(post_id, file_path) ==
    [post_id |-> post_id, file_path |-> file_path]

\* The columns a handler assigns; a flush emits an UPDATE only when one of them
\* differs from the loaded value, and the UPDATE then also sets updated_at.
Assigned(row) ==
    <<row.title, row.content, row.short_description, row.keywords, row.published>>

Flush(old, new) ==
    IF Assigned(new) = Assigned(old) THEN old
    ELSE [new EXCEPT !.updated_at = <<now>>]

\* session.delete(post) and commit: the row goes, Comment and Media rows go
\* with it (cascade="all, delete"), and favorited_by, which has no delete
\* cascade, has its rows' post_id set to NULL.
\* A delete that leaves the rows of the post's relationships alone.
CascadeRows_None(rows, id) == rows

CascadeRows(rows, id) ==
    [k \in {c \in DOMAIN rows : rows[c].post_id # <<id>>} |-> rows[k]]

NullifyRows(rows, id) ==
    [k \in DOMAIN rows |->
        IF rows[k].post_id = <<id>> THEN [rows[k] EXCEPT !.post_id = NULL]
        ELSE rows[k]]

(* --------------------------- search index --------------------------- *)
\* es_index_post: the document written under the post's id.
Document(id, post) ==
    [id |-> id, author_id |-> post.author_id, title |-> post.title,
     short_description |-> post.short_description, content |-> post.content,
     published |-> post.published, created_at |-> post.created_at,
     updated_at |-> post.updated_at, published_at |-> post.published_at,
     keywords |-> post.keywords]

es_index_post(id, post) ==
    [k \in DOMAIN index \cup {id} |->
        IF k = id THEN Document(id, post) ELSE index[k]]

\* es_delete_post: the client's delete; any exception (index unreachable,
\* document missing) is caught and printed.
es_delete_post(id, reachable) ==
    IF reachable /\ id \in DOMAIN index THEN Without(index, id) ELSE index

(* ----------------------------- queries ------------------------------ *)
\* An ownership query that forgets the author.
OwnedPosts_AnyAuthor(post_id, sub) ==
    {i \in DOMAIN posts : i = post_id}

\* select(Post).where(Post.id == post_id, Post.author_id == user["sub"])
OwnedPosts(post_id, sub) ==
    {i \in DOMAIN posts :
        Selected(SqlAnd(SqlEq(<<i>>, post_id),
                        SqlEq(<<posts[i].author_id>>, sub)))}

\* select(Comment).where(Comment.id == comment_id, Comment.author_id == user["sub"])
OwnedComments(comment_id, sub) ==
    {i \in DOMAIN comments :
        Selected(SqlAnd(SqlEq(<<i>>, comment_id),
                        SqlEq(<<comments[i].author_id>>, sub)))}

\* A visibility query that tests "not a draft" instead of "published".
VisiblePosts_NotDraft(post_id, sub) ==
    {i \in DOMAIN posts :
        i = post_id /\ (posts[i].published # <<FALSE>> \/ posts[i].author_id = sub)}

\* select(Post).where(Post.id == post_id,
\*                    or_(Post.published == True, Post.author_id == user["sub"]))
VisiblePosts(post_id, sub) ==
    {i \in DOMAIN posts :
        Selected(SqlAnd(SqlEq(<<i>>, post_id),
                        SqlOr(SqlEq(posts[i].published, TRUE),
                              SqlEq(<<posts[i].author_id>>, sub))))}

(* ---------------------------- responses ----------------------------- *)
Step(op, phase, user, id, arg, status, out) ==
    [op |-> op, phase |-> phase, user |-> user, id |-> id, arg |-> arg,
     status |-> status, out |-> out]

Suspend(r) == inflight (+) SetToBag({r})
Resume(r) == inflight (-) SetToBag({r})
\* Post handlers between their commit and their index call, and add_favorite
\* handlers between their queries and their commit, are bounded separately.
Adding == {r \in BagToSet(inflight) : r.op = "add_favorite"}
CanSuspend(op) ==
    LET adding == BagCardinality([r \in Adding |-> inflight[r]]) IN
    IF op = "add_favorite" THEN adding < MaxAdders
    ELSE BagCardinality(inflight) - adding < MaxWriters
Continuation(op, user, id, post) ==
    [op |-> op, user |-> user, id |-> id, post |-> post]

Init ==
    /\ posts = <<>> /\ comments = <<>> /\ favourites = <<>> /\ media = <<>>
    /\ index = <<>>
    /\ post_seq = 0 /\ comment_seq = 0 /\ favourite_seq = 0 /\ media_seq = 0
    /\ now = 0
    /\ inflight = EmptyBag
    /\ tasks = <<>>
    /\ startup = [pc |-> "ping", i |-> 0, pings |-> 0, result |-> NULL]
    /\ last = Step("start", "env", "", 0, NULL, "none", NULL)

\* Time passes between two transactions (func.now()).
Tick ==
    /\ now < MaxClock
    /\ now' = now + 1
    /\ last' = Step("tick", "env", "", 0, NULL, "none", NULL)
    /\ UNCHANGED <<store, index, seqs, inflight, tasks, startup>>

(* --------------------------- post handlers -------------------------- *)
\* create_post up to its commit and refresh.  The request's published flag is
\* not passed to Post(...), so the column default applies.
create_post(u, body) ==
    /\ post_seq < MaxPosts
    /\ CanSuspend("create_post")
    /\ LET id == post_seq + 1
           new_post == Post(u, body.title, body.content,
                            body.short_description, body.keywords)
       IN  /\ posts' = (id :> new_post) @@ posts
           /\ post_seq' = id
           /\ inflight' = Suspend(Continuation("create_post", u, id, new_post))
           /\ last' = Step("create_post", "call", u, id, NULL, "committed", NULL)
    /\ UNCHANGED <<comments, favourites, media, index, comment_seq,
                   favourite_seq, media_seq, now, tasks, startup>>

\* An index call whose failure is swallowed, as es_delete_post swallows its own.
IndexAndReturn_Swallow(r, reachable) ==
    /\ inflight' = Resume(r)
    /\ index' = IF reachable THEN es_index_post(r.id, r.post) ELSE index
    /\ last' = Step(r.op, "resume", r.user, r.id, NULL, "ok", NULL)
    /\ UNCHANGED <<store, seqs, now, tasks, startup>>

\* `await es_index_post(post); return post` of create_post, update_post and
\* patch_post: an exception of the index client is not caught (500).
IndexAndReturn(r, reachable) ==
    /\ inflight' = Resume(r)
    /\ IF reachable
       THEN /\ index' = es_index_post(r.id, r.post)
            /\ last' = Step(r.op, "resume", r.user, r.id, NULL, "ok", NULL)
       ELSE /\ index' = index
            /\ last' = Step(r.op, "resume", r.user, r.id, NULL, "ServerError", NULL)
    /\ UNCHANGED <<store, seqs, now, tasks, startup>>

create_post_index(r, reachable) ==
    /\ r.op = "create_post"
    /\ IndexAndReturn(r, reachable)

UpdateAssignments(post, body) ==
    [post EXCEPT !.title = body.title, !.content = body.content,
                 !.short_description = body.short_description,
                 !.keywords = body.keywords, !.published = body.published]

update_post(u, post_id, body) ==
    LET found == OwnedPosts(post_id, u) IN
    IF found = {}
    THEN /\ last' = Step("update_post", "call", u, post_id, NULL, "NotFound", NULL)
         /\ UNCHANGED <<store, index, seqs, now, inflight, tasks, startup>>
    ELSE /\ CanSuspend("update_post")
         /\ LET post == Flush(posts[post_id], UpdateAssignments(posts[post_id], body))
            IN  /\ posts' = [posts EXCEPT ![post_id] = post]
                /\ inflight' = Suspend(Continuation("update_post", u, post_id, post))
         /\ last' = Step("update_post", "call", u, post_id, NULL, "committed", NULL)
         /\ UNCHANGED <<comments, favourites, media, index, seqs, now, tasks, startup>>

update_post_index(r, reachable) ==
    /\ r.op = "update_post"
    /\ IndexAndReturn(r, reachable)

\* A patch that assigns keywords whether or not the request carries them.
PatchAssignments_KeywordsAlways(post, patch) ==
    [post EXCEPT
        !.title = IF patch.title # NULL THEN patch.title[1] ELSE @,
        !.content = IF patch.content # NULL THEN patch.content[1] ELSE @,
        !.short_description =
            IF patch.short_description # NULL THEN patch.short_description ELSE @,
        !.keywords = patch.keywords,
        !.published = IF patch.published # NULL THEN patch.published ELSE @]

PatchAssignments(post, patch) ==
    [post EXCEPT
        !.title = IF patch.title # NULL THEN patch.title[1] ELSE @,
        !.content = IF patch.content # NULL THEN patch.content[1] ELSE @,
        !.short_description =
            IF patch.short_description # NULL THEN patch.short_description ELSE @,
        !.keywords = IF patch.keywords # NULL THEN patch.keywords ELSE @,
        !.published = IF patch.published # NULL THEN patch.published ELSE @]

patch_post(u, post_id, patch) ==
    LET found == OwnedPosts(post_id, u) IN
    IF found = {}
    THEN /\ last' = Step("patch_post", "call", u, post_id, patch, "NotFound", NULL)
         /\ UNCHANGED <<store, index, seqs, now, inflight, tasks, startup>>
    ELSE /\ CanSuspend("patch_post")
         /\ LET post == Flush(posts[post_id], PatchAssignments(posts[post_id], patch))
            IN  /\ posts' = [posts EXCEPT ![post_id] = post]
                /\ inflight' = Suspend(Continuation("patch_post", u, post_id, post))
         /\ last' = Step("patch_post", "call", u, post_id, patch, "committed", NULL)
         /\ UNCHANGED <<comments, favourites, media, index, seqs, now, tasks, startup>>

patch_post_index(r, reachable) ==
    /\ r.op = "patch_post"
    /\ IndexAndReturn(r, reachable)

delete_post(u, post_id) ==
    LET found == OwnedPosts(post_id, u) IN
    IF found = {}
    THEN /\ last' = Step("delete_post", "call", u, post_id, NULL, "NotFound", NULL)
         /\ UNCHANGED <<store, index, seqs, now, inflight, tasks, startup>>
    ELSE /\ CanSuspend("delete_post")
         /\ posts' = Without(posts, post_id)
         /\ comments' = CascadeRows(comments, post_id)
         /\ media' = CascadeRows(media, post_id)
         /\ favourites' = NullifyRows(favourites, post_id)
         /\ inflight' = Suspend(Continuation("delete_post", u, post_id, NULL))
         /\ last' = Step("delete_post", "call", u, post_id, NULL, "committed", NULL)
         /\ UNCHANGED <<index, seqs, now, tasks, startup>>

\* `await es_delete_post(post_id); return None`.  out records whether the
\* index removal went through.
delete_post_index(r, reachable) ==
    /\ r.op = "delete_post"
    /\ inflight' = Resume(r)
    /\ index' = es_delete_post(r.id, reachable)
    /\ last' = Step("delete_post", "resume", r.user, r.id, NULL, "ok", <<reachable>>)
    /\ UNCHANGED <<store, seqs, now, tasks, startup>>

(* -------------------------- comment handlers ------------------------ *)
\* create_comment checks only that the post exists (select(Post).filter(id)).
create_comment(u, post_id, content) ==
    IF post_id \notin DOMAIN posts
    THEN /\ last' = Step("create_comment", "call", u, post_id, NULL, "NotFound", NULL)
         /\ UNCHANGED <<store, index, seqs, now, inflight, tasks, startup>>
    ELSE /\ comment_seq < MaxComments
         /\ comment_seq' = comment_seq + 1
         /\ comments' = (comment_seq' :> Comment(content, post_id, u)) @@ comments
         /\ last' = Step("create_comment", "call", u, post_id, NULL, "ok",
                         <<comment_seq'>>)
         /\ UNCHANGED <<posts, favourites, media, index, post_seq, favourite_seq,
                        media_seq, now, inflight, tasks, startup>>

update_comment(u, comment_id, content) ==
    LET found == OwnedComments(comment_id, u) IN
    IF found = {}
    THEN /\ last' = Step("update_comment", "call", u, comment_id, NULL,
                         "NotFound", NULL)
         /\ UNCHANGED <<store, index, seqs, now, inflight, tasks, startup>>
    ELSE /\ comments' = [comments EXCEPT ![comment_id].content = content]
         /\ last' = Step("update_comment", "call", u, comment_id, NULL, "ok",
                         <<comment_id>>)
         /\ UNCHANGED <<posts, favourites, media, index, seqs, now, inflight, tasks, startup>>

delete_comment(u, comment_id) ==
    LET found == OwnedComments(comment_id, u) IN
    IF found = {}
    THEN /\ last' = Step("delete_comment", "call", u, comment_id, NULL,
                         "NotFound", NULL)
         /\ UNCHANGED <<store, index, seqs, now, inflight, tasks, startup>>
    ELSE /\ comments' = Without(comments, comment_id)
         /\ last' = Step("delete_comment", "call", u, comment_id, NULL, "ok", NULL)
         /\ UNCHANGED <<posts, favourites, media, index, seqs, now, inflight, tasks, startup>>

(* ------------------------------ media ------------------------------- *)
allowed_extensions == {".jpg", ".jpeg", ".png", ".gif"}

\* upload_media has no requester.  The object store may refuse the object
\* (S3Error, 500); the insert of a Media row whose post_id names no post is
\* refused by the foreign key (500).  file_path is a fresh generated name.
upload_media(ext, post_id, stored) ==
    IF ext \notin allowed_extensions
    THEN /\ last' = Step("upload_media", "call", "", 0, NULL,
                         "BadRequest", NULL)
         /\ UNCHANGED <<store, index, seqs, now, inflight, tasks, startup>>
    ELSE IF ~stored \/ (post_id # NULL /\ post_id[1] \notin DOMAIN posts)
    THEN /\ last' = Step("upload_media", "call", "", 0, NULL,
                         "ServerError", NULL)
         /\ UNCHANGED <<store, index, seqs, now, inflight, tasks, startup>>
    ELSE /\ media_seq < MaxMedia
         /\ media_seq' = media_seq + 1
         /\ media' = (media_seq' :> Media(post_id, <<media_seq', ext>>)) @@ media
         /\ last' = Step("upload_media", "call", "", 0, NULL, "ok",
                         <<media_seq'>>)
         /\ UNCHANGED <<posts, comments, favourites, index, post_seq, comment_seq,
                        favourite_seq, now, inflight, tasks, startup>>

(* ---------------------------- favourites ---------------------------- *)
\* select(FavouritePost).where(user_id == user["sub"], post_id == post_id)
FavouriteRows(sub, post_id) ==
    {f \in DOMAIN favourites :
        Selected(SqlAnd(SqlEq(<<favourites[f].user_id>>, sub),
                        SqlEq(favourites[f].post_id, post_id)))}

\* add_favorite up to its second query: the post must exist; an existing row
\* ends the request with the "already in favourites" message.
add_favorite(u, post_id) ==
    IF post_id \notin DOMAIN posts
    THEN /\ last' = Step("add_favorite", "call", u, post_id, NULL, "NotFound", NULL)
         /\ UNCHANGED <<store, index, seqs, now, inflight, tasks, startup>>
    ELSE IF FavouriteRows(u, post_id) # {}
    THEN /\ last' = Step("add_favorite", "call", u, post_id, NULL, "ok", <<"exists">>)
         /\ UNCHANGED <<store, index, seqs, now, inflight, tasks, startup>>
    ELSE /\ CanSuspend("add_favorite")
         /\ inflight' = Suspend(Continuation("add_favorite", u, post_id, NULL))
         /\ last' = Step("add_favorite", "call", u, post_id, NULL, "pending", NULL)
         /\ UNCHANGED <<store, index, seqs, now, tasks, startup>>

\* db.add(favourite); await db.commit().  The table has no unique constraint
\* on (user_id, post_id); the foreign key refuses a post that is gone.
add_favorite_commit(r) ==
    /\ r.op = "add_favorite"
    /\ inflight' = Resume(r)
    /\ IF r.id \notin DOMAIN posts
       THEN /\ last' = Step("add_favorite", "resume", r.user, r.id, NULL,
                            "ServerError", NULL)
            /\ UNCHANGED <<favourites, favourite_seq>>
       ELSE /\ favourite_seq < MaxFavourites
            /\ favourite_seq' = favourite_seq + 1
            /\ favourites' =
                   (favourite_seq' :> FavouritePost(r.user, r.id)) @@ favourites
            /\ last' = Step("add_favorite", "resume", r.user, r.id, NULL, "ok",
                            <<"added">>)
    /\ UNCHANGED <<posts, comments, media, index, post_seq, comment_seq,
                   media_seq, now, tasks, startup>>

\* The attributes of the declarative class FavouritePost: its columns and its
\* relationship.  It defines no `delete`.
FavouritePostAttributes == {"id", "post_id", "user_id", "post"}

\* remove_favorite: NotFound without a row; otherwise the handler evaluates
\* FavouritePost.delete(), an attribute the class does not have, which raises
\* before any statement reaches the store (500).
remove_favorite(u, post_id) ==
    IF FavouriteRows(u, post_id) = {}
    THEN /\ last' = Step("remove_favorite", "call", u, post_id, NULL, "NotFound", NULL)
         /\ UNCHANGED <<store, index, seqs, now, inflight, tasks, startup>>
    ELSE IF "delete" \notin FavouritePostAttributes
    THEN /\ last' = Step("remove_favorite", "call", u, post_id, NULL,
                         "ServerError", NULL)
         /\ UNCHANGED <<store, index, seqs, now, inflight, tasks, startup>>
    ELSE /\ favourites' = [f \in DOMAIN favourites \ FavouriteRows(u, post_id)
                              |-> favourites[f]]
         /\ last' = Step("remove_favorite", "call", u, post_id, NULL, "ok", NULL)
         /\ UNCHANGED <<posts, comments, media, index, seqs, now, inflight, tasks, startup>>

(* ------------------------------ reads ------------------------------- *)
get_post(u, post_id) ==
    /\ LET found == VisiblePosts(post_id, u) IN
       IF found = {}
       THEN last' = Step("get_post", "call", u, post_id, NULL, "NotFound", NULL)
       ELSE last' = Step("get_post", "call", u, post_id, NULL, "ok",
                         <<posts[CHOOSE i \in found : TRUE]>>)
    /\ UNCHANGED <<store, index, seqs, now, inflight, tasks, startup>>

\* `if author_id:` -- a condition is added for a non-empty string only.
Truthy(author_id) == author_id # NULL /\ author_id # <<"">>

\* The conditions get_posts collects, and_(*conditions) evaluated on one row.
ListConditions(row, current_user_id, published, author_id) ==
    LET author ==
            IF Truthy(author_id) THEN SqlEq(<<row.author_id>>, author_id[1]) ELSE "T"
        own_draft ==
            SqlAnd(SqlEq(row.published, FALSE),
                   SqlEq(<<row.author_id>>, current_user_id))
        status ==
            IF published # NULL
            THEN IF published[1] THEN SqlEq(row.published, TRUE) ELSE own_draft
            ELSE SqlOr(SqlEq(row.published, TRUE), own_draft)
    IN  SqlAnd(author, status)

\* get_posts: the ids of the rows returned (each with title, created_at and
\* updated_at; no ordering is asked of the store).
get_posts(u, published, author_id) ==
    /\ last' = Step("get_posts", "call", u, 0, <<published, author_id>>, "ok",
                    {i \in DOMAIN posts :
                        Selected(ListConditions(posts[i], u, published, author_id))})
    /\ UNCHANGED <<store, index, seqs, now, inflight, tasks, startup>>

(* --------------------------- keyword task --------------------------- *)
\* KeyBERT's extraction and the ", ".join of its phrases, as a fixed table
\* from content to the keyword string.
extract_keywords(content) ==
    IF content = "c1" THEN "k1" ELSE IF content = "c2" THEN "k2" ELSE ""

\* A generate_keywords(post_id, content) message reaches the worker's queue.
\* No handler of the router sends one; the arguments are the sender's.
generate_keywords(post_id, content) ==
    /\ Len(tasks) < MaxTasks
    /\ tasks' = Append(tasks, [post_id |-> post_id, content |-> content,
                               pc |-> "queued", keywords |-> NULL])
    /\ last' = Step("generate_keywords", "call", "", post_id, NULL, "queued", NULL)
    /\ UNCHANGED <<store, index, seqs, now, inflight, startup>>

\* The worker runs the extraction; it may raise (model load, extraction), and
\* the task then ends before update_post_keywords.
generate_keywords_extract(t, succeeds) ==
    /\ t \in DOMAIN tasks
    /\ tasks[t].pc = "queued"
    /\ tasks' = [tasks EXCEPT ![t] =
                    IF succeeds
                    THEN [@ EXCEPT !.pc = "extracted",
                                   !.keywords = <<extract_keywords(tasks[t].content)>>]
                    ELSE [@ EXCEPT !.pc = "failed"]]
    /\ last' = Step("generate_keywords", "resume", "", tasks[t].post_id, t,
                    IF succeeds THEN "extracted" ELSE "failed", NULL)
    /\ UNCHANGED <<store, index, seqs, now, inflight, startup>>

\* A task that assigns the keywords and never commits.
update_post_keywords_NoCommit(t) ==
    /\ t \in DOMAIN tasks
    /\ tasks[t].pc = "extracted"
    /\ tasks' = [tasks EXCEPT ![t].pc = "done"]
    /\ last' = Step("update_post_keywords", "resume", "", tasks[t].post_id, t,
                    "done", tasks[t].keywords)
    /\ UNCHANGED <<store, index, seqs, now, inflight, startup>>

\* update_post_keywords in a session of its own: select the post by id and,
\* if there is one, assign keywords and commit.
update_post_keywords(t) ==
    /\ t \in DOMAIN tasks
    /\ tasks[t].pc = "extracted"
    /\ tasks' = [tasks EXCEPT ![t].pc = "done"]
    /\ LET post_id == tasks[t].post_id IN
       IF post_id \in DOMAIN posts
       THEN posts' = [posts EXCEPT ![post_id] =
                         Flush(@, [@ EXCEPT !.keywords = tasks[t].keywords])]
       ELSE posts' = posts
    /\ last' = Step("update_post_keywords", "resume", "", tasks[t].post_id, t,
                    "done", tasks[t].keywords)
    /\ UNCHANGED <<comments, favourites, media, index, seqs, now, inflight, startup>>

InFlight == BagToSet(inflight)
PostIds == 1 .. MaxPosts

CommentIds == 1 .. MaxComments
TaskIds == 1 .. MaxTasks

AuthorFilters == {NULL, <<"">>} \cup {<<u>> : u \in Users}

(* ------------------ mirroring into the index (Spec) ----------------- *)
\* The requests differ in the title; the index may be unreachable at any call.
MirrorBodies ==
    [title : Titles, content : {"c1"}, short_description : {NULL},
     published : {NULL}, keywords : {NULL}]
MirrorPatches ==
    [title : {<<"t2">>}, content : {NULL}, short_description : {NULL},
     keywords : {<<"k1">>}, published : {NULL}]

Next ==
    \/ \E body \in MirrorBodies : create_post("u1", body)
    \/ \E u \in Users, id \in PostIds, body \in MirrorBodies : update_post(u, id, body)
    \/ \E u \in Users, id \in PostIds, patch \in MirrorPatches : patch_post(u, id, patch)
    \/ \E u \in Users, id \in PostIds : delete_post(u, id)
    \/ \E r \in InFlight, reachable \in BOOLEAN : create_post_index(r, reachable)
    \/ \E r \in InFlight, reachable \in BOOLEAN : update_post_index(r, reachable)
    \/ \E r \in InFlight, reachable \in BOOLEAN : patch_post_index(r, reachable)
    \/ \E r \in InFlight, reachable \in BOOLEAN : delete_post_index(r, reachable)

Spec == Init /\ [][Next]_vars

(* ------------------- deletion and cascade (SpecDelete) -------------- *)
DraftBodies ==
    [title : {"t1"}, content : {"c1"}, short_description : {NULL},
     published : {NULL}, keywords : {NULL}]

NextDelete ==
    \/ \E u \in Users, body \in DraftBodies : create_post(u, body)
    \/ \E u \in Users, id \in PostIds : delete_post(u, id)
    \/ \E r \in InFlight, reachable \in BOOLEAN : create_post_index(r, reachable)
    \/ \E r \in InFlight, reachable \in BOOLEAN : delete_post_index(r, reachable)
    \/ \E u \in Users, id \in PostIds : create_comment(u, id, "x")
    \/ \E id \in PostIds, stored \in BOOLEAN : upload_media(".png", <<id>>, stored)
    \/ \E stored \in BOOLEAN : upload_media(".png", NULL, stored)
    \/ \E id \in PostIds : upload_media(".txt", <<id>>, TRUE)

SpecDelete == Init /\ [][NextDelete]_vars

(* ----------------------- ownership (SpecOwn) ------------------------ *)
\* "u1" writes the posts and the comments; "u2" favours the first post and
\* tries every mutation on every id.  No update_post gets as far as its
\* index call: the only requester of one is "u2".
OwnBodies ==
    [title : {"t2"}, content : {"c1"}, short_description : {NULL},
     published : {<<TRUE>>}, keywords : {NULL}]
OwnPatches ==
    [title : {NULL}, content : {NULL}, short_description : {NULL},
     keywords : {NULL}, published : {<<TRUE>>}]

NextOwn ==
    \/ \E body \in DraftBodies : create_post("u1", body)
    \/ \E id \in PostIds, body \in OwnBodies : update_post("u2", id, body)
    \/ \E u \in Users, id \in PostIds, patch \in OwnPatches : patch_post(u, id, patch)
    \/ \E u \in Users, id \in PostIds : delete_post(u, id)
    \/ \E r \in InFlight : create_post_index(r, TRUE)
    \/ \E r \in InFlight : patch_post_index(r, TRUE)
    \/ \E r \in InFlight : delete_post_index(r, TRUE)
    \/ create_comment("u1", 1, "x")
    \/ \E id \in CommentIds : update_comment("u2", id, "y")
    \/ \E u \in Users, id \in CommentIds : delete_comment(u, id)
    \/ upload_media(".png", <<1>>, TRUE)
    \/ add_favorite("u2", 1)
    \/ \E r \in InFlight : add_favorite_commit(r)

SpecOwn == Init /\ [][NextOwn]_vars

(* ---------------------- partial update (SpecPatch) ------------------ *)
\* PATCH requests that carry no field, one field, or every field.
NoPatch ==
    [title |-> NULL, content |-> NULL, short_description |-> NULL,
     keywords |-> NULL, published |-> NULL]
PatchBodies ==
    {NoPatch,
     [NoPatch EXCEPT !.title = <<"t2">>],
     [NoPatch EXCEPT !.content = <<"c2">>],
     [NoPatch EXCEPT !.short_description = <<"s1">>],
     [NoPatch EXCEPT !.keywords = <<"k1">>],
     [NoPatch EXCEPT !.published = <<TRUE>>],
     [title |-> <<"t1">>, content |-> <<"c1">>, short_description |-> <<"s1">>,
      keywords |-> <<"k1">>, published |-> <<FALSE>>]}

\* The first post is patched by its author; a comment on it and any later
\* post stand by.
NextPatch ==
    \/ Tick
    \/ \E body \in DraftBodies : create_post("u1", body)
    \/ \E patch \in PatchBodies : patch_post("u1", 1, patch)
    \/ \E r \in InFlight : create_post_index(r, TRUE)
    \/ \E r \in InFlight : patch_post_index(r, TRUE)
    \/ create_comment("u2", 1, "x")

SpecPatch == Init /\ [][NextPatch]_vars

(* -------------------------- reads (SpecRead) ------------------------ *)
\* The requests differ in the published flag, which update_post may omit.
FlagBodies ==
    [title : {"t1"}, content : {"c1"}, short_description : {NULL},
     published : OptBool, keywords : {NULL}]
FlagPatches ==
    [title : {NULL}, content : {NULL}, short_description : {NULL},
     keywords : {NULL}, published : {<<TRUE>>, <<FALSE>>}]

NextRead ==
    \/ \E u \in Users, body \in DraftBodies : create_post(u, body)
    \/ \E u \in Users, id \in PostIds, body \in FlagBodies : update_post(u, id, body)
    \/ \E u \in Users, id \in PostIds, patch \in FlagPatches : patch_post(u, id, patch)
    \/ \E u \in Users, id \in PostIds : delete_post(u, id)
    \/ \E r \in InFlight : create_post_index(r, TRUE)
    \/ \E r \in InFlight : update_post_index(r, TRUE)
    \/ \E r \in InFlight : patch_post_index(r, TRUE)
    \/ \E r \in InFlight : delete_post_index(r, TRUE)
    \/ \E u \in Users, id \in PostIds : get_post(u, id)

SpecRead == Init /\ [][NextRead]_vars

(* ------------------------- listing (SpecList) ----------------------- *)
NextList ==
    \/ \E u \in Users, body \in DraftBodies : create_post(u, body)
    \/ \E u \in Users, id \in PostIds, body \in FlagBodies : update_post(u, id, body)
    \/ \E u \in Users, id \in PostIds, patch \in FlagPatches : patch_post(u, id, patch)
    \/ \E u \in Users, id \in PostIds : delete_post(u, id)
    \/ \E r \in InFlight : create_post_index(r, TRUE)
    \/ \E r \in InFlight : update_post_index(r, TRUE)
    \/ \E r \in InFlight : patch_post_index(r, TRUE)
    \/ \E r \in InFlight : delete_post_index(r, TRUE)
    \/ \E u \in Users, published \in OptBool, author_id \in AuthorFilters :
           get_posts(u, published, author_id)

SpecList == Init /\ [][NextList]_vars

(* ------------------------ favourites (SpecFav) ---------------------- *)
NextFav ==
    \/ \E u \in Users, body \in DraftBodies : create_post(u, body)
    \/ \E r \in InFlight : create_post_index(r, TRUE)
    \/ \E u \in Users, id \in PostIds : add_favorite(u, id)
    \/ \E r \in InFlight : add_favorite_commit(r)
    \/ \E u \in Users, id \in PostIds : remove_favorite(u, id)

SpecFav == Init /\ [][NextFav]_vars

(* ----------------------- keyword task (SpecKw) ---------------------- *)
\* Posts are created with keywords of their own; the task extracts "k2".
KwBodies ==
    [title : {"t1"}, content : {"c2"}, short_description : {NULL},
     published : {NULL}, keywords : {<<"k1">>, <<"k2">>}]

NextKw ==
    \/ Tick
    \/ \E body \in KwBodies : create_post("u1", body)
    \/ \E id \in PostIds : delete_post("u1", id)
    \/ \E r \in InFlight : create_post_index(r, TRUE)
    \/ \E r \in InFlight : delete_post_index(r, TRUE)
    \/ \E id \in PostIds : generate_keywords(id, "c2")
    \/ \E t \in DOMAIN tasks, succeeds \in BOOLEAN :
           generate_keywords_extract(t, succeeds)
    \/ \E t \in DOMAIN tasks : update_post_keywords(t)

\* The worker runs a task it has taken to its end.
SpecKw ==
    /\ Init /\ [][NextKw]_vars
    /\ \A t \in TaskIds : WF_vars(update_post_keywords(t))

(* ------------------------ search (SpecSearch) ----------------------- *)
\* search_posts(query, size: int = 10)
size == 10

\* multi_match of the query on title, short_description and content (the
\* boost of title orders the hits and selects none): a field matches a query
\* when it holds the query's term.
Matches(doc, query) ==
    \/ doc.title = query
    \/ doc.short_description = <<query>>
    \/ doc.content = query

Queries == {NULL, <<"">>, <<"t1">>, <<"c1">>, <<"zz">>}
SearchOutcomes == {"ok", "NotFoundError", "Exception"}

\* search_posts takes no requester and adds no condition on published or
\* author_id; `caller` is whoever sent the request.  `if not query` is a 400.
\* The index "posts" is made by the first document written to it, so the
\* search can find it missing only while it holds no document (404); any
\* other error of the client is a 500.  The response is the _source of at
\* most `size` hits.
search_posts(caller, query, outcome) ==
    /\ IF query = NULL \/ query = <<"">>
       THEN last' = Step("search_posts", "call", caller, 0, query, "BadRequest", {})
       ELSE IF outcome = "NotFoundError"
       THEN /\ DOMAIN index = {}
            /\ last' = Step("search_posts", "call", caller, 0, query, "NotFound", {})
       ELSE IF outcome = "Exception"
       THEN last' = Step("search_posts", "call", caller, 0, query, "ServerError", {})
       ELSE LET found == {index[k] : k \in {j \in DOMAIN index :
                                                Matches(index[j], query[1])}}
            IN  \E hits \in SUBSET found :
                    /\ Cardinality(hits) =
                           IF Cardinality(found) < size THEN Cardinality(found) ELSE size
                    /\ last' = Step("search_posts", "call", caller, 0, query, "ok", hits)
    /\ UNCHANGED <<store, index, seqs, now, inflight, tasks, startup>>

NextSearch ==
    \/ \E u \in Users, body \in DraftBodies : create_post(u, body)
    \/ \E u \in Users, id \in PostIds, body \in FlagBodies : update_post(u, id, body)
    \/ \E u \in Users, id \in PostIds, patch \in FlagPatches : patch_post(u, id, patch)
    \/ \E u \in Users, id \in PostIds : delete_post(u, id)
    \/ \E r \in InFlight, reachable \in BOOLEAN : create_post_index(r, reachable)
    \/ \E r \in InFlight, reachable \in BOOLEAN : update_post_index(r, reachable)
    \/ \E r \in InFlight, reachable \in BOOLEAN : patch_post_index(r, reachable)
    \/ \E r \in InFlight, reachable \in BOOLEAN : delete_post_index(r, reachable)
    \/ \E caller \in Users, query \in Queries, outcome \in SearchOutcomes :
           search_posts(caller, query, outcome)

SpecSearch == Init /\ [][NextSearch]_vars

(* ----------------------- startup (SpecStartup) ---------------------- *)
\* wait_for_elasticsearch(es_client, timeout: int = 60); lifespan passes no
\* timeout.
timeout == 60

PingOutcomes == {"true", "false", "raise"}

handlers == <<posts, comments, favourites, media, index,
              post_seq, comment_seq, favourite_seq, media_seq,
              now, inflight, tasks>>

\* A ping that raises ends the wait instead of counting as a failed attempt.
wait_for_elasticsearch_ping_Propagate(outcome) ==
    /\ startup.pc = "ping" /\ startup.i < timeout
    /\ startup' = [startup EXCEPT
                       !.pings = @ + 1,
                       !.pc = IF outcome = "true" THEN "returned"
                              ELSE IF outcome = "raise" THEN "aborted" ELSE "sleep",
                       !.result = IF outcome = "true" THEN <<TRUE>> ELSE @]
    /\ last' = Step("wait_for_elasticsearch", "ping", "", startup.i, NULL, outcome, NULL)
    /\ UNCHANGED handlers

\* One pass of `for i in range(timeout)` up to the sleep: `return True` when
\* the ping answers true; a false answer and an exception (except Exception:
\* pass) both go on to the sleep.
wait_for_elasticsearch_ping(outcome) ==
    /\ startup.pc = "ping" /\ startup.i < timeout
    /\ startup' = [startup EXCEPT
                       !.pings = @ + 1,
                       !.pc = IF outcome = "true" THEN "returned" ELSE "sleep",
                       !.result = IF outcome = "true" THEN <<TRUE>> ELSE @]
    /\ last' = Step("wait_for_elasticsearch", "ping", "", startup.i, NULL, outcome, NULL)
    /\ UNCHANGED handlers

\* `await asyncio.sleep(1)`, then the next value of i.
wait_for_elasticsearch_sleep ==
    /\ startup.pc = "sleep"
    /\ startup' = [startup EXCEPT !.pc = "ping", !.i = @ + 1]
    /\ last' = Step("wait_for_elasticsearch", "sleep", "", startup.i, NULL, "slept", NULL)
    /\ UNCHANGED handlers

\* range(timeout) is exhausted: `return False`.
wait_for_elasticsearch_exhausted ==
    /\ startup.pc = "ping" /\ startup.i >= timeout
    /\ startup' = [startup EXCEPT !.pc = "returned", !.result = <<FALSE>>]
    /\ last' = Step("wait_for_elasticsearch", "return", "", startup.i, NULL, "false", NULL)
    /\ UNCHANGED handlers

\* lifespan after the wait: raise Exception(...) on False, otherwise go on to
\* init_minio_bucket().
lifespan ==
    /\ startup.pc = "returned"
    /\ startup' = [startup EXCEPT
                       !.pc = IF startup.result = <<TRUE>> THEN "minio" ELSE "aborted"]
    /\ last' = Step("lifespan", "wait", "", 0, NULL,
                    IF startup.result = <<TRUE>> THEN "ok" ELSE "Exception", NULL)
    /\ UNCHANGED handlers

\* init_minio_bucket() and the `yield` after it; an error of the object store
\* is not caught and ends the startup as well.
init_minio_bucket(ok) ==
    /\ startup.pc = "minio"
    /\ startup' = [startup EXCEPT !.pc = IF ok THEN "serving" ELSE "aborted"]
    /\ last' = Step("lifespan", "minio", "", 0, NULL,
                    IF ok THEN "serving" ELSE "Exception", NULL)
    /\ UNCHANGED handlers

NextStartup ==
    \/ \E outcome \in PingOutcomes : wait_for_elasticsearch_ping(outcome)
    \/ wait_for_elasticsearch_sleep
    \/ wait_for_elasticsearch_exhausted
    \/ lifespan
    \/ \E ok \in BOOLEAN : init_minio_bucket(ok)

\* The event loop runs the startup coroutine on; a ping and a sleep return.
SpecStartup == Init /\ [][NextStartup]_vars /\ WF_vars(NextStartup)

(* ============================== claims ============================== *)
\* What the specification calls visible: published, or the requester's own.
Visible(id, R) ==
    id \in DOMAIN posts /\ (posts[id].published = <<TRUE>> \/ posts[id].author_id = R)

\* C1: get_post(P.id, R) returns P exactly when P exists and is published or
\* authored by R; in every other case, a missing post or a hidden one alike,
\* the response is the same NotFound.
C1_GetPostVisibility ==
    last.op = "get_post" =>
        IF Visible(last.id, last.user)
        THEN last.status = "ok" /\ last.out = <<posts[last.id]>>
        ELSE last.status = "NotFound" /\ last.out = NULL

\* C1 witness: a post that exists, was left without a published flag by an
\* update, and is refused to a requester who is not its author.
C1_Witness ==
    /\ last.op = "get_post" /\ last.status = "NotFound"
    /\ last.id \in DOMAIN posts
    /\ posts[last.id].published = NULL
    /\ posts[last.id].author_id # last.user

\* C2 (as claimed): get_posts(R) without filters returns exactly the posts that
\* get_post gives R, the published ones and R's own that are not published.
C2_ListEqualsVisible ==
    (last.op = "get_posts" /\ last.arg = <<NULL, NULL>>) =>
        last.out = {i \in DOMAIN posts : Visible(i, last.user)}

\* C3 (as claimed): get_posts(R, published=false, author_id=A) returns exactly
\* the posts that are not published, authored by R and authored by A.
C3_DraftFilter ==
    (last.op = "get_posts" /\ last.arg[1] = <<FALSE>> /\ last.arg[2] # NULL) =>
        last.out = {i \in DOMAIN posts :
                       /\ posts[i].published # <<TRUE>>
                       /\ posts[i].author_id = last.user
                       /\ posts[i].author_id = last.arg[2][1]}

\* The requester is not the author of the target, or there is no target.
NotAuthor(op, R, id) ==
    IF op \in {"update_post", "patch_post", "delete_post"}
    THEN ~(id \in DOMAIN posts /\ posts[id].author_id = R)
    ELSE ~(id \in DOMAIN comments /\ comments[id].author_id = R)

\* C4: update_post, patch_post, delete_post, update_comment and delete_comment
\* called by a requester who is not the author of the target (missing or not,
\* published or not) respond NotFound and change no Post, Comment,
\* FavouritePost or Media row and no document of the index.
C4_NonAuthorMutation ==
    [][(/\ last'.phase = "call"
        /\ last'.op \in {"update_post", "patch_post", "delete_post",
                         "update_comment", "delete_comment"}
        /\ NotAuthor(last'.op, last'.user, last'.id))
       => (/\ last'.status = "NotFound"
           /\ UNCHANGED <<posts, comments, favourites, media, index>>)]_vars

\* C4 witness: delete_post refused on a published post of another author that
\* has a comment, a favourite and a media row.
C4_Witness ==
    /\ last.op = "delete_post" /\ last.phase = "call" /\ last.status = "NotFound"
    /\ last.id \in DOMAIN posts
    /\ posts[last.id].published = <<TRUE>>
    /\ posts[last.id].author_id # last.user
    /\ \E c \in DOMAIN comments : comments[c].post_id = <<last.id>>
    /\ \E f \in DOMAIN favourites : favourites[f].post_id = <<last.id>>
    /\ \E m \in DOMAIN media : media[m].post_id = <<last.id>>

\* What the claim says a PATCH leaves in a row: the request's value for a
\* field that is present, the stored value for every other field.
Overwritten(old, patch) ==
    [author_id |-> old.author_id,
     title |-> IF patch.title = NULL THEN old.title ELSE patch.title[1],
     content |-> IF patch.content = NULL THEN old.content ELSE patch.content[1],
     short_description |->
         IF patch.short_description = NULL THEN old.short_description
         ELSE patch.short_description,
     keywords |-> IF patch.keywords = NULL THEN old.keywords ELSE patch.keywords,
     published |-> IF patch.published = NULL THEN old.published ELSE patch.published,
     created_at |-> old.created_at, updated_at |-> old.updated_at,
     published_at |-> old.published_at]

PatchCommitted ==
    last'.op = "patch_post" /\ last'.phase = "call" /\ last'.status = "committed"

\* C5 (as claimed): a patch_post by the author overwrites exactly the fields
\* present in the request and leaves every other field of the post, and every
\* other row, as stored.
C5_PatchLeavesTheRest ==
    [][PatchCommitted =>
        /\ posts' = [posts EXCEPT ![last'.id] = Overwritten(@, last'.arg)]
        /\ UNCHANGED <<comments, favourites, media>>]_vars

\* C5 (amended): as claimed, except for updated_at, which the store sets to
\* the time of the update whenever the request changes the value of a field.
C5_PatchFrame ==
    [][PatchCommitted =>
        /\ posts' = [posts EXCEPT ![last'.id] =
                        IF Overwritten(@, last'.arg) = @ THEN @
                        ELSE [Overwritten(@, last'.arg) EXCEPT !.updated_at = <<now>>]]
        /\ UNCHANGED <<comments, favourites, media>>]_vars

\* C5 witness: a patch with only a title was committed on a post that had
\* keywords, a description, a published flag and a comment.
C5_Witness ==
    /\ last.op = "patch_post" /\ last.status = "committed"
    /\ last.arg = [title |-> <<"t2">>, content |-> NULL, short_description |-> NULL,
                   keywords |-> NULL, published |-> NULL]
    /\ posts[last.id].title = "t2"
    /\ posts[last.id].keywords = <<"k1">>
    /\ posts[last.id].short_description = <<"s1">>
    /\ posts[last.id].published = <<TRUE>>
    /\ posts[last.id].updated_at # posts[last.id].created_at
    /\ \E c \in DOMAIN comments : comments[c].post_id = <<last.id>>

\* C8: once delete_post(P) by P's author has committed, the store holds no
\* Post P, no Comment and no Media of P; the handler then answers success
\* whether or not the index removal went through, and when it did the index
\* holds no document for P.
C8_DeleteCascade ==
    (last.op = "delete_post" /\ last.status # "NotFound") =>
        /\ last.id \notin DOMAIN posts
        /\ \A c \in DOMAIN comments : comments[c].post_id # <<last.id>>
        /\ \A m \in DOMAIN media : media[m].post_id # <<last.id>>
        /\ last.phase = "call" => last.status = "committed"
        /\ last.phase = "resume" =>
               /\ last.status = "ok"
               /\ last.out = <<TRUE>> => last.id \notin DOMAIN index

\* C8 witness: delete_post answered success although the index removal failed;
\* the post's comment and media row are gone with it and its document stays.
C8_Witness ==
    /\ last.op = "delete_post" /\ last.phase = "resume" /\ last.status = "ok"
    /\ last.out = <<FALSE>>
    /\ last.id \in DOMAIN index
    /\ comment_seq > 0 /\ comments = <<>>
    /\ media_seq > 0 /\ media = <<>>

\* The continuation that the step just taken resumed.
Resumed == CHOOSE r \in BagToSet(inflight) : inflight' = Resume(r)

PostWrites == {"create_post", "update_post", "patch_post"}

\* C9: create_post, update_post and patch_post commit to the store first and
\* leave the index alone at that step; they answer success only in the step
\* that writes the index a document whose fields equal the row the handler
\* committed; a failed index write ends the request in a server error with
\* the index and the committed store rows left as they are.
C9_MirrorBeforeSuccess ==
    [][last'.op \in PostWrites =>
        /\ (last'.phase = "call" /\ last'.status # "NotFound") =>
               /\ last'.status = "committed"
               /\ index' = index
               /\ \E r \in BagToSet(inflight') :
                      /\ r.op = last'.op /\ r.id = last'.id
                      /\ r.post = posts'[last'.id]
                      /\ inflight' = Suspend(r)
        /\ last'.phase = "resume" =>
               /\ \E r \in BagToSet(inflight) : inflight' = Resume(r)
               /\ Resumed.op = last'.op /\ Resumed.id = last'.id
               /\ UNCHANGED <<posts, comments, favourites, media>>
               /\ last'.status \in {"ok", "ServerError"}
               /\ last'.status = "ok" =>
                      /\ last'.id \in DOMAIN index'
                      /\ index'[last'.id].id = last'.id
                      /\ \A f \in DOMAIN Resumed.post :
                             index'[last'.id][f] = Resumed.post[f]
               /\ last'.status = "ServerError" => index' = index]_vars

\* C9 witness: update_post ended in a server error; its row is committed in
\* the store and the index still holds the document of the earlier row.
C9_Witness ==
    /\ last.op = "update_post" /\ last.phase = "resume"
    /\ last.status = "ServerError"
    /\ last.id \in DOMAIN posts /\ last.id \in DOMAIN index
    /\ posts[last.id].title = "t2" /\ index[last.id].title = "t1"

\* The FavouritePost rows of a (user, post) pair.
PairRows(u, p) ==
    {f \in DOMAIN favourites : favourites[f] = FavouritePost(u, p)}

\* C6 (as claimed): whatever the interleaving of add_favorite and
\* remove_favorite requests, a (user, post) pair has at most one row.
C6_AtMostOneRow ==
    \A u \in Users, p \in PostIds : Cardinality(PairRows(u, p)) <= 1

\* C7 (as claimed): remove_favorite answers NotFound and changes nothing when
\* the pair has no row; when it has one the call succeeds, no row of the pair
\* remains and every other favourite is unchanged.
C7_RemoveFavourite ==
    [][last'.op = "remove_favorite" =>
        IF PairRows(last'.user, last'.id) = {}
        THEN /\ last'.status = "NotFound"
             /\ UNCHANGED <<posts, comments, favourites, media>>
        ELSE /\ last'.status = "ok"
             /\ favourites' = [f \in DOMAIN favourites
                                     \ PairRows(last'.user, last'.id)
                                 |-> favourites[f]]
             /\ UNCHANGED <<posts, comments, media>>]_vars

TaskWrote == last'.op = "update_post_keywords"

\* C10 (as claimed, the frame): the task's update changes the keywords of the
\* post it names and no other field; without such a post it changes nothing.
C10_OnlyKeywords ==
    [][TaskWrote =>
        /\ posts' = IF last'.id \in DOMAIN posts
                    THEN [posts EXCEPT ![last'.id].keywords = last'.out]
                    ELSE posts
        /\ UNCHANGED <<comments, favourites, media, index, inflight>>]_vars

\* C10 (amended): a task whose extraction succeeded eventually runs its
\* update; right after it the post it names, if there is one, has the
\* extracted keywords.  The update changes keywords and, when the value
\* changes, updated_at, and nothing else; without such a post it changes
\* nothing and creates none; it touches no handler in flight.
C10_KeywordsEventually ==
    /\ [][TaskWrote =>
           /\ posts' = IF last'.id \in DOMAIN posts
                       THEN [posts EXCEPT ![last'.id] =
                                IF @.keywords = last'.out THEN @
                                ELSE [@ EXCEPT !.keywords = last'.out,
                                               !.updated_at = <<now>>]]
                       ELSE posts
           /\ last'.out = tasks[last'.arg].keywords
           /\ UNCHANGED <<comments, favourites, media, index, inflight>>]_vars
    /\ \A t \in TaskIds :
           (t \in DOMAIN tasks /\ tasks[t].pc = "extracted")
           ~> (/\ t \in DOMAIN tasks /\ tasks[t].pc = "done"
               /\ last.op = "update_post_keywords" /\ last.arg = t
               /\ tasks[t].post_id \in DOMAIN posts
                      => posts[tasks[t].post_id].keywords = tasks[t].keywords)

\* C10 witness: the task has written the keywords it extracted from "c2" over
\* the keywords the post was created with, at a later time than its creation.
C10_Witness ==
    /\ last.op = "update_post_keywords"
    /\ last.id \in DOMAIN posts
    /\ posts[last.id].keywords = <<"k2">>
    /\ tasks[last.arg].keywords = <<"k2">>
    /\ posts[last.id].updated_at = <<now>>
    /\ posts[last.id].created_at # <<now>>
    /\ posts[last.id].title = "t1"

Pinged == last'.op = "wait_for_elasticsearch" /\ last'.phase = "ping"

\* C11: the startup wait ends.  It pings at most `timeout` times, with one
\* sleep between two pings; the first ping that answers true ends it with
\* True; a ping that answers false or raises goes on to the sleep; it ends
\* with False only once `timeout` pings have failed.  The startup goes on to
\* the bucket initialisation and to serving only after True, and after False
\* it is aborted.
C11_StartupWait ==
    /\ [](/\ startup.pings <= timeout
          /\ startup.pc = "ping" => startup.pings = startup.i
          /\ startup.pc = "sleep" => startup.pings = startup.i + 1
          /\ startup.pc \in {"minio", "serving"} => startup.result = <<TRUE>>
          /\ startup.result = <<FALSE>> =>
                 startup.pings = timeout /\ startup.pc \in {"returned", "aborted"})
    /\ [][/\ Pinged =>
                /\ startup'.pings = startup.pings + 1
                /\ IF last'.status = "true"
                   THEN startup'.pc = "returned" /\ startup'.result = <<TRUE>>
                   ELSE startup'.pc = "sleep" /\ startup'.result = NULL
          /\ startup'.result # startup.result =>
                 /\ startup.result = NULL
                 /\ startup'.pc = "returned"
                 /\ startup'.result = <<TRUE>> <=> (Pinged /\ last'.status = "true")
          /\ (startup.pc = "returned" /\ startup'.pc # "returned") =>
                 startup'.pc = IF startup.result = <<TRUE>> THEN "minio" ELSE "aborted"
         ]_vars
    /\ <>(startup.result # NULL)
    /\ <>(startup.pc \in {"serving", "aborted"})

\* C11 witness: every one of the `timeout` pings failed, the wait returned
\* False and the startup was aborted.
C11_Witness ==
    /\ startup.pc = "aborted"
    /\ startup.result = <<FALSE>>
    /\ startup.pings = timeout

\* C12 (as claimed): every document that search_posts returns to a caller R
\* is a post that get_post would give R: the document, and the post it is a
\* copy of, are published or authored by R.
C12_SearchShowsVisibleOnly ==
    last.op = "search_posts" =>
        \A doc \in last.out :
            /\ doc.published = <<TRUE>> \/ doc.author_id = last.user
            /\ Visible(doc.id, last.user)

====
